---- MODULE Spec2Model ----
(***************************************************************************)
(* Model of beyond_correlation/discover.py: one call of discover(df, ...)  *)
(* as a state machine over the positions of its body.  A data frame is a   *)
(* record of its column order, its row index labels, the dtype of every    *)
(* column and the cells of every column.  A cell is [na, v]: na marks a    *)
(* missing value; v is the value (for an object column, the rank of the    *)
(* string among all strings, so that sorting v sorts the strings).         *)
(***************************************************************************)
EXTENDS FiniteSets, Integers, Sequences, TLC

\* ---- bounds of the model ------------------------------------------------
MaxCols == 3
MaxRows == 3
MaxMissing == 1

\* ---- program constants --------------------------------------------------
corr_methods == <<"pearson", "spearman", "kendall">>
known_methods == corr_methods \o <<"rf">>
cv == 3

\* ---- input universes ----------------------------------------------------
ColumnNames == <<"a", "b", "c", "d", "e">>
Methods == {"pearson", "spearman", "kendall", "rf", "lasso"}
\* classifier_overrides is None or a collection of names
None == [none |-> TRUE, names |-> {}]
OverrideChoices == {None, [none |-> FALSE, names |-> {}], [none |-> FALSE, names |-> {"b", "zz"}]}

Range(s) == {s[i] : i \in DOMAIN s}
Positions(n) == [i \in 1..n |-> i]

NaN == [na |-> TRUE, v |-> 0]
Val(x) == [na |-> FALSE, v |-> x]

\* the value a generated data set holds at row i (1-based) of a column:
\* a numeric column is constant (np.ones), an object column alternates
\* between two strings, of ranks 5 and 8
CellValue(dtype, i) == IF dtype = "O" THEN (IF i % 2 = 1 THEN Val(5) ELSE Val(8)) ELSE Val(1)

\* ---- data frame operations ----------------------------------------------
\* DataFrame.shape[0]
NumRows(d) == Len(d.index)

\* DataFrame.shape[1]
NumColumns(d) == Len(d.columns)

\* df[[n1, n2, ...]]: a new frame with the named columns, in that order
Select(d, names) ==
  [columns |-> names,
   index   |-> d.index,
   dtype   |-> [c \in Range(names) |-> d.dtype[c]],
   data    |-> [c \in Range(names) |-> d.data[c]]]

\* the rows (positions) of d with no missing value in any of the columns
CompleteRows(d, names) ==
  {i \in 1..NumRows(d) : \A c \in names : ~d.data[c][i].na}

\* the frame restricted to the rows in keep, order and index labels preserved
TakeRows(d, keep) ==
  LET P == SelectSeq(Positions(NumRows(d)), LAMBDA i : i \in keep)
  IN  [columns |-> d.columns,
       index   |-> [j \in 1..Len(P) |-> d.index[P[j]]],
       dtype   |-> d.dtype,
       data    |-> [c \in DOMAIN d.data |-> [j \in 1..Len(P) |-> d.data[c][P[j]]]]]

\* DataFrame.dropna(): a new frame without the rows that have a missing value
dropna(d) == TakeRows(d, CompleteRows(d, Range(d.columns)))

\* DataFrame.isnull().sum().sum() over the given columns
NullCount(d, names) ==
  Cardinality({<<c, i>> \in names \X (1..NumRows(d)) : d.data[c][i].na})

\* DataFrame.drop(columns=[col]): a new frame without the column
Drop(d, col) ==
  LET rest == SelectSeq(d.columns, LAMBDA c : c # col)
  IN  [columns |-> rest,
       index   |-> d.index,
       dtype   |-> [c \in Range(rest) |-> d.dtype[c]],
       data    |-> [c \in Range(rest) |-> d.data[c]]]

\* df_ml[col] = <ndarray>: the array is assigned by position; a new column
\* is appended after the existing ones
SetItemSeries(d, col, arr) ==
  [columns |-> IF col \in Range(d.columns) THEN d.columns ELSE Append(d.columns, col),
   index   |-> d.index,
   dtype   |-> [c \in Range(d.columns) \cup {col} |-> IF c = col THEN "int64" ELSE d.dtype[c]],
   data    |-> [c \in Range(d.columns) \cup {col} |->
                  IF c = col
                  THEN [j \in 1..NumRows(d) |->
                          IF d.index[j] + 1 \in DOMAIN arr THEN arr[d.index[j] + 1] ELSE NaN]
                  ELSE d.data[c]]]

SetItem(d, col, arr) ==
  [columns |-> IF col \in Range(d.columns) THEN d.columns ELSE Append(d.columns, col),
   index   |-> d.index,
   dtype   |-> [c \in Range(d.columns) \cup {col} |-> IF c = col THEN "int64" ELSE d.dtype[c]],
   data    |-> [c \in Range(d.columns) \cup {col} |->
                  IF c = col THEN [j \in 1..NumRows(d) |-> arr[j]] ELSE d.data[c]]]

\* LabelEncoder().fit_transform(values): the classes are the sorted distinct
\* values, the code of a value is its 0-based position among the classes
fit_transform(values) ==
  LET classes == {values[i].v : i \in DOMAIN values}
  IN  [i \in DOMAIN values |-> Val(Cardinality({k \in classes : k < values[i].v}))]

\* labelencode_if_object(df_ml): iterates the columns the frame had on entry
RECURSIVE EncodeFrom(_, _, _)
EncodeFrom(d, names, k) ==
  IF k > Len(names) THEN d
  ELSE LET col == names[k]
       IN  IF d.dtype[col] = "O"
           THEN EncodeFrom(SetItem(Drop(d, col), col, fit_transform(d.data[col])), names, k + 1)
           ELSE EncodeFrom(d, names, k + 1)

labelencode_if_object(d) == EncodeFrom(d, d.columns, 1)

\* ---- the data sets discover is called with ------------------------------
\* N columns named a, b, ..., of which the first `objects` hold strings and
\* the others numbers, R rows labelled 0..R-1, and a set of missing cells
\* <<column position, row position>>
MakeFrame(N, R, objects, missing) ==
  LET dtype_at(k) == IF k <= objects THEN "O" ELSE "float64"
      names == {ColumnNames[k] : k \in 1..N}
      at(c) == CHOOSE k \in 1..N : ColumnNames[k] = c
  IN  [columns |-> [k \in 1..N |-> ColumnNames[k]],
       index   |-> [i \in 1..R |-> i - 1],
       dtype   |-> [c \in names |-> dtype_at(at(c))],
       data    |-> [c \in names |->
                      [i \in 1..R |-> IF <<at(c), i>> \in missing THEN NaN
                                       ELSE CellValue(dtype_at(at(c)), i)]]]

Frames ==
  UNION { UNION { { MakeFrame(N, R, objects, missing) :
                      objects \in 0..N,
                      missing \in {S \in SUBSET ((1..N) \X (1..R)) : Cardinality(S) <= MaxMissing} }
                  : R \in 0..MaxRows }
          : N \in 0..MaxCols }

\* ---- state --------------------------------------------------------------
VARIABLES
  df,                      \* the caller's data frame (the object, as it is now)
  df_in,                   \* its contents when discover was called
  method,
  classifier_overrides,
  include_na_information,
  cols,                    \* df.columns as read on entry
  col_i,                   \* number of columns the estimator loop has handled
  estimators,              \* the estimator instances constructed, in order
  estimator_mapping,       \* column name -> instance (position in estimators)
  est,                     \* the instance bound by the outer loop
  idx_Y, idx_X,            \* 0-based loop positions (target, feature)
  df_ml,                   \* the pair's two-column working frame
  rows_after_drop_na,
  ds,
  nan_information,
  result,                  \* what discover returned
  error,                   \* the exception that left discover
  pc

vars == <<df, df_in, method, classifier_overrides, include_na_information, cols, col_i,
          estimators, estimator_mapping, est, idx_Y, idx_X, df_ml, rows_after_drop_na,
          ds, nan_information, result, error, pc>>

NoFrame == [columns |-> <<>>, index |-> <<>>, dtype |-> <<>>, data |-> <<>>]
NoResult == [kind |-> "none"]
NoError == "none"

Init ==
  /\ df \in Frames
  /\ df_in = df
  /\ method \in Methods
  /\ classifier_overrides \in OverrideChoices
  /\ include_na_information \in BOOLEAN
  /\ cols = <<>>
  /\ col_i = 0
  /\ estimators = <<>>
  /\ estimator_mapping = <<>>
  /\ est = 0
  /\ idx_Y = 0
  /\ idx_X = 0
  /\ df_ml = NoFrame
  /\ rows_after_drop_na = 0
  /\ ds = <<>>
  /\ nan_information = <<>>
  /\ result = NoResult
  /\ error = NoError
  /\ pc = "validate"

\* ---- control ------------------------------------------------------------
\* an exception raised inside discover is caught nowhere: it leaves the call
RaiseIsolated(exc, continuation) == [pc |-> continuation, error |-> exc]

Raise(exc, continuation) == [pc |-> "failed", error |-> exc]

Continue(continuation) == [pc |-> continuation, error |-> error]

\* assert method in set(known_methods)
method_check_skipped(m) == TRUE

method_is_known(m) == m \in Range(known_methods)

\* if idx_X == idx_Y: continue
skip_never(y, x) == FALSE

skip_pair(y, x) == x = y

\* the place of iteration (y, x) in the nested loops: target outer, feature inner
loop_order_feature_major(n, y, x) == x * n + y

loop_order(n, y, x) == y * n + x

\* the iteration whose body runs next after iteration (y, x); <<n, 0>> when
\* both loops are exhausted.  The loops start from (0, -1).
next_iteration(n, y, x) ==
  LET later == {p \in (0..(n - 1)) \X (0..(n - 1)) :
                  /\ ~skip_pair(p[1], p[2])
                  /\ loop_order(n, p[1], p[2]) > loop_order(n, y, x)}
  IN  IF later = {} THEN <<n, 0>>
      ELSE CHOOSE p \in later :
             \A q \in later : loop_order(n, p[1], p[2]) <= loop_order(n, q[1], q[2])

pc_at(n, it) == IF it[1] >= n THEN "assemble" ELSE "prepare"

\* ---- lines 26-32: validation, column list, default overrides -----------
Validate ==
  /\ pc = "validate"
  /\ LET ctl == IF method_is_known(method) THEN Continue("estimators")
                 ELSE Raise("AssertionError", "estimators")
     IN  /\ pc' = ctl.pc
         /\ error' = ctl.error
         /\ IF ctl.pc = "failed"
            THEN UNCHANGED <<cols, classifier_overrides>>
            ELSE /\ cols' = df.columns
                 /\ classifier_overrides' =
                      IF classifier_overrides.none THEN [none |-> FALSE, names |-> {}]
                      ELSE classifier_overrides
  /\ UNCHANGED <<df, df_in, method, include_na_information, col_i, estimators,
                 estimator_mapping, est, idx_Y, idx_X, df_ml, rows_after_drop_na,
                 ds, nan_information, result>>

\* ---- lines 33-38: one estimator per column ------------------------------
estimator_kind_by_dtype(col, overrides, d) ==
  IF d.dtype[col] = "O" THEN "RandomForestClassifier" ELSE "RandomForestRegressor"

estimator_kind(col, overrides, d) ==
  IF col \in overrides.names THEN "RandomForestClassifier" ELSE "RandomForestRegressor"

BuildEstimator ==
  /\ pc = "estimators"
  /\ col_i < Len(cols)
  /\ LET col == cols[col_i + 1]
     IN  /\ estimators' = Append(estimators,
                                 [kind |-> estimator_kind(col, classifier_overrides, df),
                                  n_estimators |-> 50])
         /\ estimator_mapping' =
              [c \in DOMAIN estimator_mapping \cup {col} |->
                 IF c = col THEN Len(estimators) + 1 ELSE estimator_mapping[c]]
  /\ col_i' = col_i + 1
  /\ UNCHANGED <<df, df_in, method, classifier_overrides, include_na_information, cols,
                 est, idx_Y, idx_X, df_ml, rows_after_drop_na, ds, nan_information,
                 result, error, pc>>

\* ---- lines 40-46: empty accumulators, first iteration -------------------
StartLoops ==
  /\ pc = "estimators"
  /\ col_i = Len(cols)
  /\ ds' = <<>>
  /\ nan_information' = <<>>
  /\ LET it == next_iteration(Len(cols), 0, -1)
     IN  /\ idx_Y' = it[1]
         /\ idx_X' = it[2]
         /\ pc' = pc_at(Len(cols), it)
  /\ est' = IF Len(cols) >= 1 THEN estimator_mapping[cols[1]] ELSE est
  /\ UNCHANGED <<df, df_in, method, classifier_overrides, include_na_information, cols,
                 col_i, estimators, estimator_mapping, df_ml, rows_after_drop_na,
                 result, error>>

\* ---- lines 43-57: the pair's frame, missing rows, NaN record, encoding ---
\* df[[feature, target]] and .dropna() each build a new frame; the caller's
\* frame is the object they read.  The record names what each object holds.
pair_frames_inplace(d, feature, target) ==
  [caller   |-> TakeRows(d, CompleteRows(d, {feature, target})),
   selected |-> Select(d, <<feature, target>>),
   dropped  |-> dropna(Select(d, <<feature, target>>))]

pair_frames_all_columns(d, feature, target) ==
  [caller   |-> d,
   selected |-> Select(d, <<feature, target>>),
   dropped  |-> Select(dropna(d), <<feature, target>>)]

pair_frames(d, feature, target) ==
  [caller   |-> d,
   selected |-> Select(d, <<feature, target>>),
   dropped  |-> dropna(Select(d, <<feature, target>>))]

\* n_dropped_na / rows_before_drop_na on Python ints: a quotient, kept as
\* <<numerator, denominator>>, or ZeroDivisionError
divide_guarded(n, d) ==
  [raises |-> FALSE, quotient |-> IF d = 0 THEN <<0, 1>> ELSE <<n, d>>]

divide(n, d) ==
  IF d = 0 THEN [raises |-> TRUE, quotient |-> <<0, 0>>]
  ELSE [raises |-> FALSE, quotient |-> <<n, d>>]

Prepare ==
  /\ pc = "prepare"
  /\ LET target  == cols[idx_Y + 1]
         feature == cols[idx_X + 1]
         frames  == pair_frames(df, feature, target)
         rows_before_drop_na == NumRows(frames.selected)
         after   == NumRows(frames.dropped)
         n_dropped_na == rows_before_drop_na - after
         pct     == divide(n_dropped_na, rows_before_drop_na)
         ctl     == IF pct.raises
                    THEN Raise("ZeroDivisionError",
                               pc_at(Len(cols), next_iteration(Len(cols), idx_Y, idx_X)))
                    ELSE Continue("score")
     IN  /\ est' = estimator_mapping[target]
         /\ df' = frames.caller
         /\ df_ml' = IF pct.raises THEN frames.dropped
                     ELSE labelencode_if_object(frames.dropped)
         /\ rows_after_drop_na' = after
         /\ nan_information' =
              IF pct.raises THEN nan_information
              ELSE Append(nan_information,
                          [feature |-> feature, target |-> target,
                           n_dropped_na |-> n_dropped_na,
                           pct_dropped_na |-> pct.quotient])
         /\ pc' = ctl.pc
         /\ error' = ctl.error
         /\ IF pct.raises /\ ctl.pc # "failed"
            THEN LET it == next_iteration(Len(cols), idx_Y, idx_X)
                 IN  idx_Y' = it[1] /\ idx_X' = it[2]
            ELSE UNCHANGED <<idx_Y, idx_X>>
  /\ UNCHANGED <<df_in, method, classifier_overrides, include_na_information, cols, col_i,
                 estimators, estimator_mapping, ds, result>>

\* ---- lines 59-84: assertions, score, score record -----------------------
\* cross_val_score(est, df_X, df_y, cv=3) raises ValueError when the splitter
\* cannot make 3 folds: KFold (regressor) needs 3 samples, StratifiedKFold
\* (classifier) needs a class with 3 members
cv_raises(kind, y) ==
  IF kind = "RandomForestClassifier"
  THEN \A k \in {y[i].v : i \in DOMAIN y} : Cardinality({i \in DOMAIN y : y[i].v = k}) < cv
  ELSE Len(y) < cv

\* the value of score after lines 72-81
score_of(m, e, feature, target, n) ==
  IF m = "rf" THEN [via |-> "cross_val_score", estimator |-> e, n |-> n]
  ELSE IF m \in Range(corr_methods) THEN [via |-> "corr", method |-> m, n |-> n]
  ELSE [via |-> "default"]

Score ==
  /\ pc = "score"
  /\ LET target  == cols[idx_Y + 1]
         feature == cols[idx_X + 1]
         df_y    == df_ml.data[target]
         it      == next_iteration(Len(cols), idx_Y, idx_X)
         after   == pc_at(Len(cols), it)
         exc     == IF NullCount(df_ml, {feature}) # 0 \/ NullCount(df_ml, {target}) # 0
                    THEN "AssertionError"
                    ELSE IF method = "rf" /\ cv_raises(estimators[est].kind, df_y)
                    THEN "ValueError"
                    ELSE IF /\ method \in Range(corr_methods)
                            /\ NumColumns(Select(df_ml, <<feature, target>>)) # 2
                    THEN "AssertionError"
                    ELSE NoError
         ctl     == IF exc # NoError THEN Raise(exc, after) ELSE Continue(after)
     IN  /\ pc' = ctl.pc
         /\ error' = ctl.error
         /\ ds' = IF exc = NoError
                  THEN Append(ds, [feature |-> feature, target |-> target,
                                   score |-> score_of(method, est, feature, target,
                                                      NumRows(df_ml))])
                  ELSE ds
         /\ IF ctl.pc = "failed"
            THEN UNCHANGED <<idx_Y, idx_X>>
            ELSE idx_Y' = it[1] /\ idx_X' = it[2]
  /\ UNCHANGED <<df, df_in, method, classifier_overrides, include_na_information, cols,
                 col_i, estimators, estimator_mapping, est, df_ml, rows_after_drop_na,
                 nan_information, result>>

\* ---- lines 86-91: result frames ------------------------------------------
\* pd.DataFrame(list of dicts): one row per dict, in order, labelled 0..n-1;
\* the columns are the dicts' keys (none for an empty list)
DataFrame(records, keys) ==
  [columns |-> IF records = <<>> THEN <<>> ELSE keys,
   index   |-> [i \in 1..Len(records) |-> i - 1],
   rows    |-> records]

return_always_tuple(flag, df_results, df_nan_info) ==
  [kind |-> "tuple", df_results |-> df_results, df_nan_info |-> df_nan_info]

return_value(flag, df_results, df_nan_info) ==
  IF flag THEN [kind |-> "tuple", df_results |-> df_results, df_nan_info |-> df_nan_info]
  ELSE [kind |-> "frame", df_results |-> df_results]

Return ==
  /\ pc = "assemble"
  /\ result' = return_value(include_na_information,
                            DataFrame(ds, <<"feature", "target", "score">>),
                            DataFrame(nan_information,
                                      <<"feature", "target", "n_dropped_na", "pct_dropped_na">>))
  /\ pc' = "done"
  /\ UNCHANGED <<df, df_in, method, classifier_overrides, include_na_information, cols,
                 col_i, estimators, estimator_mapping, est, idx_Y, idx_X, df_ml,
                 rows_after_drop_na, ds, nan_information, error>>

Next ==
  \/ Validate
  \/ BuildEstimator
  \/ StartLoops
  \/ Prepare
  \/ Score
  \/ Return

Spec == Init /\ [][Next]_vars

\* ---- vocabulary of the properties ---------------------------------------
\* (all stated over the data set as it was passed in, df_in)
N == Len(df_in.columns)
R == NumRows(df_in)
ColumnSet == Range(df_in.columns)
Pos(c) == CHOOSE k \in 1..N : df_in.columns[k] = c
ValidMethod == method \in {"pearson", "spearman", "kendall", "rf"}
ResultRows == result.df_results.rows
MissingCells == {<<c, i>> \in ColumnSet \X (1..R) : df_in.data[c][i].na}
RowsMissingIn(names) == {i \in 1..R : \E c \in names : df_in.data[c][i].na}

\* record r1 comes before record r2 in target-major, feature-minor order
Precedes(r1, r2) ==
  \/ Pos(r1.target) < Pos(r2.target)
  \/ r1.target = r2.target /\ Pos(r1.feature) < Pos(r2.feature)

\* C1: a completed call with a valid method returns exactly one score record
\* for every ordered pair of distinct columns and none for a self pair, so
\* N*(N-1) rows.
C1_OneRecordPerOrderedPair ==
  (pc = "done" /\ ValidMethod) =>
     /\ Len(ResultRows) = N * (N - 1)
     /\ \A i \in DOMAIN ResultRows : ResultRows[i].feature # ResultRows[i].target
     /\ \A f \in ColumnSet : \A t \in ColumnSet :
          f # t => Cardinality({i \in DOMAIN ResultRows :
                                  ResultRows[i].feature = f /\ ResultRows[i].target = t}) = 1

C1_Witness ==
  /\ pc = "done"
  /\ N = 3
  /\ Len(ResultRows) = 6
  /\ \E i \in DOMAIN ResultRows : ResultRows[i].feature = "c" /\ ResultRows[i].target = "a"

\* C2: the rows of the result, and of the list it is built from at every
\* moment, are in target-major, feature-minor column order: each row's pair
\* precedes the pair of the row below it and is preceded by none below (the
\* order is total and strict, so row i is above row j exactly when its pair
\* precedes the other's).
C2_TargetMajorOrder ==
  /\ \A i \in 1..(Len(ds) - 1) :
       Precedes(ds[i], ds[i + 1]) /\ ~Precedes(ds[i + 1], ds[i])
  /\ pc = "done" =>
       \A i \in DOMAIN ResultRows : \A j \in DOMAIN ResultRows :
          (i < j) <=> Precedes(ResultRows[i], ResultRows[j])

C2_Witness ==
  /\ pc = "done"
  /\ N = 3
  /\ Len(ResultRows) = 6
  /\ ResultRows[2].feature = "c" /\ ResultRows[2].target = "a"
  /\ ResultRows[3].feature = "a" /\ ResultRows[3].target = "b"

\* C3: with a method outside pearson, spearman, kendall, rf the call fails
\* with the assertion's error and nothing else ever happens: no estimator,
\* no pair frame, no NaN record, no score record, no result.
C3_InvalidMethodFailsFirst ==
  ~ValidMethod =>
     /\ pc \in {"validate", "failed"}
     /\ pc = "failed" => error = "AssertionError"
     /\ estimators = <<>>
     /\ estimator_mapping = <<>>
     /\ df_ml = NoFrame
     /\ nan_information = <<>>
     /\ ds = <<>>
     /\ result = NoResult

C3_Witness ==
  /\ method = "lasso"
  /\ pc = "failed"
  /\ error = "AssertionError"
  /\ N >= 2
  /\ R >= 1

\* C4: on a data set with at least one row, every NaN record reports as
\* n_dropped the number of rows with a missing value in its feature or its
\* target column, and as pct_dropped that number over the original row
\* count, whatever the other columns hold; when the only missing value of
\* the data set is in column a, the record of (a, b) reports 1.
C4_PairwiseDropCount ==
  R >= 1 =>
     \A i \in DOMAIN nan_information :
        LET r == nan_information[i]
        IN  /\ r.n_dropped_na = Cardinality(RowsMissingIn({r.feature, r.target}))
            /\ r.pct_dropped_na = <<r.n_dropped_na, R>>
            /\ (r.feature = "a" /\ r.target = "b" /\ Cardinality(MissingCells) = 1
                  /\ \A m \in MissingCells : m[1] = "a")
                 => r.n_dropped_na = 1

C4_Witness ==
  \E i \in DOMAIN nan_information : \E j \in DOMAIN nan_information :
     LET r == nan_information[i]
         q == nan_information[j]
     IN  /\ r.feature = "a" /\ r.target = "b"
         /\ r.n_dropped_na = 1
         /\ r.pct_dropped_na = <<1, 3>>
         /\ q.n_dropped_na = 0
         /\ RowsMissingIn(ColumnSet \ {q.feature, q.target}) # {}

\* the ordered pairs <<feature, target>> of distinct columns, target-major
OrderedPairs ==
  [k \in 1..(N * (N - 1)) |->
     LET y == (k - 1) \div (N - 1)
         j == (k - 1) % (N - 1)
         x == IF j < y THEN j ELSE j + 1
     IN  <<df_in.columns[x + 1], df_in.columns[y + 1]>>]

\* the score record of a pair, from the inputs other than
\* include_na_information: the estimator of a column is the Pos-th built
ExpectedRecord(f, t) ==
  LET n == R - Cardinality(RowsMissingIn({f, t}))
  IN  [feature |-> f, target |-> t,
       score |-> IF method = "rf"
                 THEN [via |-> "cross_val_score", estimator |-> Pos(t), n |-> n]
                 ELSE [via |-> "corr", method |-> method, n |-> n]]

ExpectedResultTable ==
  [columns |-> IF N < 2 THEN <<>> ELSE <<"feature", "target", "score">>,
   index   |-> [k \in 1..(N * (N - 1)) |-> k - 1],
   rows    |-> [k \in 1..(N * (N - 1)) |-> ExpectedRecord(OrderedPairs[k][1], OrderedPairs[k][2])]]

\* C5: a completed call returns the result table alone when
\* include_na_information is false and the pair of tables when it is true;
\* in both modes as many NaN records as score records were computed, the
\* i-th of each naming the same pair, and the result table is the one the
\* other inputs determine.
C5_ReturnShape ==
  pc = "done" =>
     /\ include_na_information =>
          /\ result.kind = "tuple"
          /\ DOMAIN result = {"kind", "df_results", "df_nan_info"}
          /\ Len(result.df_nan_info.rows) = Len(ResultRows)
          /\ \A i \in DOMAIN ResultRows :
               /\ result.df_nan_info.rows[i].feature = ResultRows[i].feature
               /\ result.df_nan_info.rows[i].target = ResultRows[i].target
     /\ ~include_na_information =>
          /\ result.kind = "frame"
          /\ DOMAIN result = {"kind", "df_results"}
     /\ Len(nan_information) = Len(ds)
     /\ \A i \in DOMAIN ds :
          nan_information[i].feature = ds[i].feature /\ nan_information[i].target = ds[i].target
     /\ result.df_results = ExpectedResultTable

C5_Witness ==
  /\ pc = "done"
  /\ ~include_na_information
  /\ N = 3
  /\ Len(nan_information) = 6
  /\ Len(ResultRows) = 6

\* the control is past the estimator loop
PastEstimators == pc \in {"prepare", "score", "assemble", "done"}

\* C6: once the pair loops run there is exactly one estimator instance per
\* column, a classifier exactly for the columns named in
\* classifier_overrides, all of them built before any pair was touched;
\* every rf score was computed with the instance bound to the pair's
\* target; override names that are no columns bind nothing and fail nothing.
C6_OneEstimatorPerColumn ==
  /\ PastEstimators =>
       /\ Len(estimators) = N
       /\ DOMAIN estimator_mapping = ColumnSet
       /\ \A c \in ColumnSet : \A e \in ColumnSet :
            estimator_mapping[c] = estimator_mapping[e] => c = e
       /\ \A c \in ColumnSet :
            /\ estimator_mapping[c] \in 1..Len(estimators)
            /\ estimators[estimator_mapping[c]].kind = "RandomForestClassifier"
                 <=> c \in classifier_overrides.names
       /\ \A i \in DOMAIN ds :
            method = "rf" =>
              /\ ds[i].score.via = "cross_val_score"
              /\ ds[i].score.estimator = estimator_mapping[ds[i].target]
  /\ pc \in {"validate", "estimators"} =>
       /\ ds = <<>>
       /\ nan_information = <<>>
       /\ df_ml = NoFrame
       /\ Len(estimators) = col_i
  /\ (pc = "failed" /\ ValidMethod) => Len(estimators) = N

C6_Witness ==
  /\ pc = "done"
  /\ method = "rf"
  /\ N = 3
  /\ classifier_overrides.names = {"b", "zz"}
  /\ Len(ds) = 6
  /\ estimators[estimator_mapping["b"]].kind = "RandomForestClassifier"
  /\ df_in.dtype["b"] = "float64"
  /\ df_in.dtype["a"] = "O"

\* the pair (f, t) cannot be processed: its frame has no rows to divide by,
\* or rf cannot split the rows left after removal into cv folds
PairFails(f, t) ==
  \/ R = 0
  \/ /\ method = "rf"
     /\ LET rows == (1..R) \ RowsMissingIn({f, t})
        IN  IF t \in classifier_overrides.names
            THEN \A i \in rows :
                   Cardinality({j \in rows : df_in.data[t][j].v = df_in.data[t][i].v}) < cv
            ELSE Cardinality(rows) < cv

DataErrors == {"ZeroDivisionError", "ValueError"}

\* C7 as stated: a failure of one pair does not abort the call.
C7_PairFailureDoesNotAbort ==
  error \in DataErrors => pc # "failed"

\* C7, amended: a failure of one pair aborts the whole call.  The call
\* returns a result only if no ordered pair fails; when a pair fails the call
\* ends there with its error, holding the records of the pairs before it and
\* returning nothing.
C7_PairFailureAborts ==
  /\ (result # NoResult /\ ValidMethod) =>
       \A k \in DOMAIN OrderedPairs : ~PairFails(OrderedPairs[k][1], OrderedPairs[k][2])
  /\ (pc = "failed" /\ ValidMethod) =>
       /\ error \in DataErrors
       /\ result = NoResult
       /\ Len(ds) < N * (N - 1)
       /\ OrderedPairs[Len(ds) + 1] = <<cols[idx_X + 1], cols[idx_Y + 1]>>
       /\ PairFails(cols[idx_X + 1], cols[idx_Y + 1])
       /\ \A k \in 1..Len(ds) : ~PairFails(OrderedPairs[k][1], OrderedPairs[k][2])

C7_Witness ==
  /\ pc = "failed"
  /\ error = "ValueError"
  /\ Len(ds) >= 1
  /\ Len(ds) + 1 < N * (N - 1)
  /\ \E k \in (Len(ds) + 2)..(N * (N - 1)) :
        ~PairFails(OrderedPairs[k][1], OrderedPairs[k][2])

\* C8: the caller's data frame holds at every moment of the call, and after
\* it ended either way, what it held when the call began.
C8_CallerFrameUnchanged ==
  df = df_in

C8_Witness ==
  /\ pc = "done"
  /\ \E c \in ColumnSet : df_in.dtype[c] = "O" /\ RowsMissingIn({c}) # {}
  /\ NumRows(df_ml) < R
  /\ \E c \in Range(df_ml.columns) : df_ml.dtype[c] = "int64"
  /\ df = df_in

\* C9: when the assertions are reached the pair's frame has exactly the
\* feature and the target column, as many rows as removal left, and no
\* missing value; no call ever fails with an assertion once the method was
\* accepted.
C9_PreparedPairIsComplete ==
  /\ pc = "score" =>
       /\ Len(df_ml.columns) = 2
       /\ Range(df_ml.columns) = {cols[idx_X + 1], cols[idx_Y + 1]}
       /\ NumRows(df_ml) = rows_after_drop_na
       /\ NumRows(df_ml) = R - Cardinality(RowsMissingIn({cols[idx_X + 1], cols[idx_Y + 1]}))
       /\ \A c \in Range(df_ml.columns) :
            /\ Len(df_ml.data[c]) = NumRows(df_ml)
            /\ \A i \in 1..NumRows(df_ml) : ~df_ml.data[c][i].na
  /\ (pc = "failed" /\ ValidMethod) => error # "AssertionError"

C9_Witness ==
  /\ pc = "score"
  /\ df_in.dtype[cols[idx_X + 1]] = "O"
  /\ df_ml.dtype[cols[idx_X + 1]] = "int64"
  /\ NumRows(df_ml) = 2
  /\ df_ml.index = <<1, 2>>
  /\ df_ml.columns[2] = cols[idx_X + 1]

\* C10: with zero rows and two or more columns the call fails with a
\* division by zero at the first pair, (b, a), with no NaN record, no score
\* record and no result; with zero rows and fewer than two columns it
\* processes no pair, does not fail, and returns an empty result table.
C10_ZeroRows ==
  (R = 0 /\ ValidMethod) =>
     /\ N >= 2 =>
          /\ pc \in {"validate", "estimators", "prepare", "failed"}
          /\ pc = "failed" => error = "ZeroDivisionError"
          /\ pc \in {"prepare", "failed"} => (idx_Y = 0 /\ idx_X = 1)
          /\ nan_information = <<>>
          /\ ds = <<>>
          /\ result = NoResult
     /\ N < 2 =>
          /\ pc \in {"validate", "estimators", "assemble", "done"}
          /\ df_ml = NoFrame
          /\ pc = "done" => (ResultRows = <<>> /\ result.df_results.columns = <<>>)

C10_Witness ==
  /\ R = 0
  /\ N = 3
  /\ pc = "failed"
  /\ error = "ZeroDivisionError"
  /\ Len(estimators) = 3

====
